---- MODULE Spec2Model ----
(***************************************************************************)
(* Model of cases/evaluate_models_cases.py: the forecast file selector     *)
(* (find_last_projections) and the evaluation pipeline of main().          *)
(*                                                                         *)
(* Dates are day numbers within 2020 (1 = 2020-01-01).  A forecast file    *)
(* name "2020-MM-DD-team-model<tag>.csv" is the tuple <<MM, DD, tag>>;     *)
(* Python's string order on such names is the lexicographic order of the   *)
(* tuples.  An optional value (None or a value) is a sequence of length 0  *)
(* or 1.                                                                   *)
(***************************************************************************)
EXTENDS Integers, Sequences, FiniteSets, TLC

VARIABLES sel_pc, sel_fnames, sel_proj_date, sel_result

selvars == <<sel_pc, sel_fnames, sel_proj_date, sel_result>>

VARIABLES
    pc,                         \* the place main() has reached
    error,                      \* "" or the error that ended the run
    hub,                        \* data-processed: the model directories, sorted
    truth_raw,                  \* the rows of the truth file
    proj_date, eval_date, use_point,
    model_to_projections,       \* model -> selected file (lines 142-159)
    df_truth_filt,              \* location -> observed total (lines 181-186)
    next_model,                 \* position of the loop of line 207
    model_to_num_locations, model_to_errors,
    model_to_us_projection, model_to_all_projections,
    df_errors_raw,              \* model x location signed errors (line 296)
    df_errors,                  \* the same after the merger (lines 307-318)
    df_errors_us,               \* the national table (lines 302-325)
    df_errors_states,           \* the coverage-filtered table (lines 351-394)
    model_to_num_valid_projections, \* model -> count of errors (line 355)
    df_all,                     \* the projection table (lines 358-386)
    df_sq_errs_states_summary,  \* the squared-error summary (lines 403-411)
    df_abs_errs_states_summary, \* the absolute-error summary (lines 418-426)
    df_ranks_summary            \* model -> mean rank (lines 435-438)

inputs == <<hub, truth_raw, proj_date, eval_date, use_point>>
fetched == <<model_to_projections, df_truth_filt>>
scored == <<df_errors_raw, df_errors, df_errors_us, df_errors_states,
            model_to_num_valid_projections, df_all>>
reported == <<df_sq_errs_states_summary, df_abs_errs_states_summary,
              df_ranks_summary>>
loaded == <<model_to_num_locations, model_to_errors,
            model_to_us_projection, model_to_all_projections>>

None == <<>>
Some(x) == <<x>>

(***************************************************************************)
(* Calendar of 2020 and str_to_date.                                       *)
(***************************************************************************)
DaysInMonth(m) ==
    CASE m \in {1, 3, 5, 7, 8, 10, 12} -> 31
      [] m \in {4, 6, 9, 11} -> 30
      [] OTHER -> 29

RECURSIVE DaysBefore(_)
DaysBefore(m) == IF m <= 1 THEN 0 ELSE DaysBefore(m - 1) + DaysInMonth(m - 1)

\* datetime.date(2020, m, d) as a day number
DateOf(m, d) == DaysBefore(m) + d

\* str_to_date(file_basename[:10]): the date, or ValueError (None) when the
\* ten leading characters are no calendar date
str_to_date(fname) ==
    IF fname[1] \in 1..12 /\ fname[2] \in 1..DaysInMonth(fname[1])
    THEN Some(DateOf(fname[1], fname[2]))
    ELSE None

\* Python's order on file names
NameLess(a, b) ==
    \/ a[1] < b[1]
    \/ a[1] = b[1] /\ a[2] < b[2]
    \/ a[1] = b[1] /\ a[2] = b[2] /\ a[3] < b[3]

\* sorted(fnames) == fnames
IsSorted(fnames) ==
    \A i \in 1..(Len(fnames) - 1) : ~NameLess(fnames[i + 1], fnames[i])

(***************************************************************************)
(* find_last_projections                                                   *)
(***************************************************************************)
ToleranceChangeDate == DateOf(7, 20)

days_tolerance_always3(pd) == 3

days_tolerance(pd) ==
    IF pd >= ToleranceChangeDate THEN 6 ELSE 3

InTolerance(file_date, pd) ==
    file_date <= pd /\ (pd - file_date) <= days_tolerance(pd)

NewerOrEqual(last_valid_date, file_date) ==
    last_valid_date = None \/ file_date >= last_valid_date[1]

\* line 62: last_valid_date is None or file_date > last_valid_date
Newer(last_valid_date, file_date) ==
    last_valid_date = None \/ file_date > last_valid_date[1]

\* the loop of lines 48-64 from index i on
RECURSIVE ScanFiles(_, _, _, _, _)
ScanFiles(fnames, pd, i, last_valid_fname, last_valid_date) ==
    IF i > Len(fnames) THEN <<last_valid_fname, last_valid_date>>
    ELSE LET file_date == str_to_date(fnames[i])
         IN  IF file_date = None
             THEN ScanFiles(fnames, pd, i + 1, last_valid_fname, last_valid_date)
             ELSE IF /\ InTolerance(file_date[1], pd)
                     /\ Newer(last_valid_date, file_date[1])
                  THEN ScanFiles(fnames, pd, i + 1, Some(fnames[i]), file_date)
                  ELSE ScanFiles(fnames, pd, i + 1, last_valid_fname, last_valid_date)

find_last_projections(fnames, pd) ==
    ScanFiles(fnames, pd, 1, None, None)

(***************************************************************************)
(* Numbers.  A float is an exact rational <<n, d>>, d > 0, in lowest       *)
(* terms; NaN is <<0, 0>>.  Sums and means skip NaN as pandas does, a      *)
(* difference with a NaN operand is NaN, a comparison with NaN is false.   *)
(***************************************************************************)
NaN == <<0, 0>>
isnan(x) == x[2] = 0
notna(x) == x[2] # 0

RECURSIVE Gcd(_, _)
Gcd(a, b) == IF b = 0 THEN a ELSE Gcd(b, a % b)

Frac(n, d) == LET g == Gcd(IF n < 0 THEN -n ELSE n, d) IN <<n \div g, d \div g>>
Num(n) == <<n, 1>>

Plus(a, b) == IF isnan(a) \/ isnan(b) THEN NaN
              ELSE Frac(a[1] * b[2] + b[1] * a[2], a[2] * b[2])
Minus(a, b) == IF isnan(a) \/ isnan(b) THEN NaN
               ELSE Frac(a[1] * b[2] - b[1] * a[2], a[2] * b[2])
Times(a, b) == IF isnan(a) \/ isnan(b) THEN NaN
               ELSE Frac(a[1] * b[1], a[2] * b[2])
abs(a) == IF a[1] < 0 THEN <<-a[1], a[2]>> ELSE a
Less(a, b) == notna(a) /\ notna(b) /\ a[1] * b[2] < b[1] * a[2]
Equal(a, b) == notna(a) /\ notna(b) /\ a = b

\* the sum of f[k] over k in S, NaN skipped (0 when nothing is left)
RECURSIVE SumSkipNa(_, _)
SumSkipNa(S, f) ==
    IF S = {} THEN Num(0)
    ELSE LET k == CHOOSE x \in S : TRUE
         IN  IF isnan(f[k]) THEN SumSkipNa(S \ {k}, f)
             ELSE Plus(f[k], SumSkipNa(S \ {k}, f))

\* Series.mean() / DataFrame.mean(): the mean of the values that are not NaN,
\* NaN when there is none
MeanSkipNa(S, f) ==
    LET have == {k \in S : notna(f[k])}
        total == SumSkipNa(have, f)
    IN  IF have = {} THEN NaN
        ELSE Frac(total[1], total[2] * Cardinality(have))

(***************************************************************************)
(* Tables.  A dict or a DataFrame keyed by model name is                   *)
(* [index |-> the names in order, at |-> name -> value].                   *)
(***************************************************************************)
EmptyTable == [index |-> <<>>, at |-> <<>>]
Keys(t) == {t.index[i] : i \in 1..Len(t.index)}

\* t[name] = value
Put(t, name, value) ==
    [index |-> IF name \in Keys(t) THEN t.index ELSE Append(t.index, name),
     at |-> [k \in Keys(t) \cup {name} |-> IF k = name THEN value ELSE t.at[k]]]

\* t.loc[keep]
Rows(t, keep) ==
    [index |-> SelectSeq(t.index, LAMBDA k : k \in keep),
     at |-> [k \in Keys(t) \cap keep |-> t.at[k]]]

(***************************************************************************)
(* Locations (lines 116-137, state mode).  df_loc holds the rows of        *)
(* locations.csv that have an abbreviation.  Tables stay keyed by the      *)
(* location code; the renaming of the columns to location names            *)
(* (fips_to_us_state) relabels them one to one and is left out.            *)
(***************************************************************************)
df_loc == {[abbreviation |-> "US", location |-> "US"],
           [abbreviation |-> "AL", location |-> "01"],
           [abbreviation |-> "AK", location |-> "02"],
           [abbreviation |-> "AZ", location |-> "04"],
           [abbreviation |-> "PR", location |-> "72"]}

US_TERRITORIES == {"AS", "GU", "MP", "PR", "VI", "UM"}

fips_to_us_state == {r.location : r \in df_loc}

fips_to_evaluate ==
    {r.location : r \in {x \in df_loc : x.abbreviation \notin US_TERRITORIES}}

(***************************************************************************)
(* Model names.  "team-model" is <<team, model>>; a test on the text of    *)
(* a name (startswith, contains) is the test on its two parts.             *)
(***************************************************************************)
COVIDhub_baseline == <<"COVIDhub", "baseline">>

\* every model directory of the checked scenarios, in Python's string order
SortedModelNames ==
    << <<"CU", "nochange">>, <<"CU", "select">>, COVIDhub_baseline,
       <<"Imperial", "ensemble1">>, <<"Imperial", "ensemble2">>,
       <<"LANL", "GrowthRate">>, <<"UCLA", "Imperial">>, <<"YYG", "ParamSearch">> >>

\* sorted(...) / sort_index() of a set of names
SortedNames(S) == SelectSeq(SortedModelNames, LAMBDA n : n \in S)

\* model_name.startswith(prefix + "-"), and name.startswith(prefix) for a
\* prefix that no team name merely begins with
name_startswith(name, prefix) == name[1] = prefix

\* index.str.contains(text)
name_contains(name, text) == name[1] = text \/ name[2] = text

(***************************************************************************)
(* The Forecast Normalizer (lines 207-287).  A forecast row is             *)
(* [target |-> <<N, "wk ahead inc case">>, target_end_date, location,      *)
(*  type, quantile, value].                                                *)
(***************************************************************************)
target_str == "wk ahead inc case"

\* df['target'].str.contains('wk ahead inc case')
is_inc_case(r) == r.target[2] = target_str

\* line 226
upto_eval_date(df, ed) == {r \in df : r.target_end_date <= ed}

inc_case_rows(df) == {r \in df : is_inc_case(r)}

\* lines 241-242: groupby('location').size() of the incident-case rows
location_quantile_sizes(df) ==
    [l \in {r.location : r \in inc_case_rows(df)} |->
        Cardinality({r \in inc_case_rows(df) : r.location = l})]

SetMax(S) == CHOOSE x \in S : \A y \in S : y <= x

\* lines 243-247: when the locations differ in their number of rows, only
\* the incident-case rows of the locations with the most rows are kept
drop_incomplete_locations(df) ==
    LET sizes == location_quantile_sizes(df)
        distinct == {sizes[l] : l \in DOMAIN sizes}
    IN  IF Cardinality(distinct) > 1
        THEN {r \in inc_case_rows(df) : sizes[r.location] = SetMax(distinct)}
        ELSE df

\* lines 252-253
has_point(df) == \E r \in df : r.type = "point"
has_median(df) == \E r \in df : r.quantile = "0.5"

\* lines 259-268
select_estimates(df, usePoint) ==
    IF has_point(df) /\ (usePoint \/ ~has_median(df))
    THEN {r \in df : /\ is_inc_case(r)
                     /\ r.type = "point"
                     /\ r.location \in fips_to_evaluate}
    ELSE {r \in df : /\ is_inc_case(r)
                     /\ r.quantile = "0.5"
                     /\ r.location \in fips_to_evaluate}

\* line 281: groupby('location')['value'].sum(), a Series over the
\* locations that have a row
sum_by_location(df) ==
    [l \in {r.location : r \in df} |->
        SumSkipNa({r \in df : r.location = l}, [r \in df |-> r.value])]

\* Series.get(l, NaN)
get(series, l) == IF l \in DOMAIN series THEN series[l] ELSE NaN

\* line 282: the difference of two Series is taken over the union of their
\* labels and is NaN where either side has none
series_minus(a, b) ==
    [l \in DOMAIN a \cup DOMAIN b |-> Minus(get(a, l), get(b, l))]

\* lines 226-276 for one raw table: the selected rows, or why the model is
\* skipped
normalize(df_model_raw, ed, usePoint) ==
    LET df_model == upto_eval_date(df_model_raw, ed)
    IN  IF inc_case_rows(df_model) = {}
        THEN [skip |-> "No inc case forecasts", rows |-> {}]
        ELSE IF {r \in inc_case_rows(df_model) : r.target_end_date = ed} = {}
        THEN [skip |-> "No inc case forecasts for this target end date", rows |-> {}]
        ELSE LET df_model_filt ==
                     select_estimates(drop_incomplete_locations(df_model), usePoint)
             IN  IF df_model_filt = {}
                 THEN [skip |-> "No rows after filt", rows |-> {}]
                 ELSE [skip |-> "", rows |-> df_model_filt]

(***************************************************************************)
(* The Truth Loader (lines 176-186).  A truth row is                       *)
(* [date, location, daily_cases].                                          *)
(***************************************************************************)
model_ran_date(pd) == pd - 1

truth_window_from_proj_date(rows, pd, ed) ==
    {r \in rows : r.date >= pd /\ r.date <= ed}

\* line 181
truth_window(rows, pd, ed) ==
    {r \in rows : r.date >= model_ran_date(pd) /\ r.date <= ed}

\* lines 183-184
truth_by_location(rows) ==
    LET df_truth == [l \in {r.location : r \in rows} |->
                        SumSkipNa({r \in rows : r.location = l},
                                  [r \in rows |-> Num(r.daily_cases)])]
    IN  [l \in DOMAIN df_truth \cap fips_to_evaluate |-> df_truth[l]]

(***************************************************************************)
(* main(): fetching the file names, the truth, and the loop over models.   *)
(***************************************************************************)
\* lines 144-159 from directory i of all_models_dirs on
RECURSIVE fetch_file_names(_, _, _, _)
fetch_file_names(dirs, pd, i, found) ==
    IF i > Len(dirs) THEN found
    ELSE LET last == find_last_projections(dirs[i].fnames, pd)
         IN  IF last[1] = None
             THEN fetch_file_names(dirs, pd, i + 1, found)
             ELSE fetch_file_names(dirs, pd, i + 1,
                      Put(found, dirs[i].model_name,
                          [last_valid_fname |-> last[1][1],
                           last_valid_date |-> last[2][1]]))

FetchFileNames ==
    /\ pc = "fetch"
    /\ model_to_projections' = fetch_file_names(hub, proj_date, 1, EmptyTable)
    /\ pc' = "truth"
    /\ UNCHANGED <<error, inputs, df_truth_filt, next_model, loaded, selvars, reported, scored>>

\* lines 176-186; the asserts of lines 182 and 185 end the run.  (Line 206
\* enters the truth in model_to_all_projections; see projection_table.)
LoadTruth ==
    /\ pc = "truth"
    /\ LET df_truth == truth_window(truth_raw, proj_date, eval_date)
           filt == truth_by_location(df_truth)
       IN  IF df_truth = {}
           THEN /\ pc' = "aborted"
                /\ error' = "No truth data available for eval date"
                /\ UNCHANGED df_truth_filt
           ELSE IF Cardinality(DOMAIN filt) # Cardinality(fips_to_evaluate)
           THEN /\ pc' = "aborted"
                /\ error' = "Missing FIPS in truth"
                /\ UNCHANGED df_truth_filt
           ELSE /\ pc' = "models"
                /\ df_truth_filt' = filt
                /\ UNCHANGED error
    /\ UNCHANGED <<inputs, model_to_projections, next_model, loaded, selvars, reported, scored>>

\* pd.read_csv(last_valid_fname) of a model directory
read_projections(dirs, name, fname) ==
    LET d == CHOOSE x \in {dirs[i] : i \in 1..Len(dirs)} : x.model_name = name
    IN  d.content[fname]

\* one pass of the loop of lines 207-287.  Every file of the hub has the
\* columns validate_projections asks for and string locations, so the asserts
\* of lines 80 and 227 pass; printing is left out.
LoadModel ==
    /\ pc = "models"
    /\ next_model <= Len(model_to_projections.index)
    /\ LET model_name == model_to_projections.index[next_model]
           projections_dict == model_to_projections.at[model_name]
           df_model_raw == read_projections(hub, model_name,
                                            projections_dict.last_valid_fname)
           norm == normalize(df_model_raw, eval_date, use_point)
           df_model_filt_values == sum_by_location(norm.rows)
           df_model_diffs == series_minus(df_model_filt_values, df_truth_filt)
       IN  IF name_startswith(model_name, "CU") /\ model_name # <<"CU", "select">>
           THEN UNCHANGED loaded
           ELSE IF norm.skip # ""
           THEN UNCHANGED loaded
           ELSE /\ model_to_num_locations' =
                      Put(model_to_num_locations, model_name,
                          Cardinality({r.location : r \in norm.rows}))
                /\ model_to_errors' = Put(model_to_errors, model_name, df_model_diffs)
                /\ model_to_us_projection' =
                      Put(model_to_us_projection, model_name,
                          get(df_model_filt_values, "US"))
                /\ model_to_all_projections' =
                      Put(model_to_all_projections, model_name, df_model_filt_values)
    /\ next_model' = next_model + 1
    /\ UNCHANGED <<pc, error, inputs, fetched, selvars, reported, scored>>

(***************************************************************************)
(* main(): the evaluation (lines 289-444).  The percentage error, the      *)
(* printing and the CSV files are left out.                                *)
(***************************************************************************)
merge_models == TRUE
merge_models_prefix == "Imperial"
combined_name == <<merge_models_prefix, "combined">>
actual_cases_name == <<"actual_cases">>
baseline_names == <<COVIDhub_baseline>>

\* a threshold of the size of the checked location universe stands for
\* min_locations_with_projections = 40 of the 51 states
min_locations_with_projections == 1

\* DataFrame.notna().sum(axis=1) of one row
notna_count(row) == Cardinality({l \in DOMAIN row : notna(row[l])})

\* lines 292-305
BeginEvaluation ==
    /\ pc = "models"
    /\ next_model > Len(model_to_projections.index)
    /\ IF \E m \in Keys(model_to_errors) :
             model_to_num_locations.at[m] # notna_count(model_to_errors.at[m])
       THEN /\ pc' = "aborted"
            /\ error' = "Certain locations not parsed"
            /\ UNCHANGED scored
       ELSE /\ df_errors_raw' = [index |-> SortedNames(Keys(model_to_errors)),
                                 at |-> model_to_errors.at]
            /\ df_errors' = df_errors_raw'
            /\ df_errors_us' =
                  [index |-> model_to_us_projection.index,
                   at |-> [m \in Keys(model_to_us_projection) |->
                              [predicted_cases |-> model_to_us_projection.at[m],
                               actual_cases |-> df_truth_filt["US"]]]]
            /\ pc' = "merge"
            /\ UNCHANGED <<error, df_errors_states,
                            model_to_num_valid_projections, df_all>>
    /\ UNCHANGED <<inputs, fetched, next_model, loaded, selvars, reported>>

\* df.loc[mask].mean(axis=0) of the per-location table
mean_of_rows(df, mask) ==
    [l \in fips_to_evaluate |-> MeanSkipNa(mask, [m \in mask |-> df.at[m][l]])]

\* the same mean with a missing forecast counted as 0
mean_of_us_rows_na_as_zero(df, mask) ==
    LET zero(x) == IF isnan(x) THEN Num(0) ELSE x
    IN  [predicted_cases |->
             MeanSkipNa(mask, [m \in mask |-> zero(df.at[m].predicted_cases)]),
         actual_cases |-> MeanSkipNa(mask, [m \in mask |-> df.at[m].actual_cases])]

\* df.loc[mask].mean(axis=0) of the national table
mean_of_us_rows(df, mask) ==
    [predicted_cases |-> MeanSkipNa(mask, [m \in mask |-> df.at[m].predicted_cases]),
     actual_cases |-> MeanSkipNa(mask, [m \in mask |-> df.at[m].actual_cases])]

\* index.str.contains(merge_models_prefix)
merge_mask(df) == {m \in Keys(df) : name_contains(m, merge_models_prefix)}

\* lines 315-318 and 320-323: the matching rows are removed and their mean
\* is added as the last row
merge_rows(df, avg) ==
    IF merge_mask(df) = {} THEN df
    ELSE Put(Rows(df, Keys(df) \ merge_mask(df)), combined_name, avg)

\* lines 307-323
MergeModels ==
    /\ pc = "merge"
    /\ IF merge_models
       THEN /\ df_errors' = merge_rows(df_errors, mean_of_rows(df_errors, merge_mask(df_errors)))
            /\ df_errors_us' = merge_rows(df_errors_us,
                                   mean_of_us_rows(df_errors_us, merge_mask(df_errors_us)))
       ELSE UNCHANGED <<df_errors, df_errors_us>>
    /\ pc' = "check"
    /\ UNCHANGED <<error, inputs, fetched, next_model, loaded, selvars, reported,
                   df_errors_raw, df_errors_states,
                   model_to_num_valid_projections, df_all>>

\* line 325
us_error(r) == Minus(r.predicted_cases, r.actual_cases)

\* lines 326-327, row by row
us_consistent(us_row, row) ==
    \/ Equal(us_error(us_row), row["US"])
    \/ isnan(us_error(us_row)) /\ isnan(row["US"])

\* lines 325-327.  An empty error table has no "US" column; two Series
\* with different labels cannot be compared.
ConsistencyCheck ==
    /\ pc = "check"
    /\ IF df_errors.index = <<>>
       THEN pc' = "aborted" /\ error' = "KeyError: US"
       ELSE IF df_errors_us.index # df_errors.index
       THEN pc' = "aborted" /\ error' = "Can only compare identically-labeled Series"
       ELSE IF \E m \in Keys(df_errors) : ~us_consistent(df_errors_us.at[m], df_errors.at[m])
       THEN pc' = "aborted" /\ error' = "AssertionError: US error"
       ELSE pc' = "filter" /\ UNCHANGED error
    /\ UNCHANGED <<inputs, fetched, next_model, loaded, selvars, reported, scored>>

\* a count equal to the threshold passes as well
at_least_min_locations(count) == count >= min_locations_with_projections

\* line 353: the comparison with the threshold
enough_locations(count) == count > min_locations_with_projections

\* line 351: drop(columns=['US'])
drop_us(row) == [l \in DOMAIN row \ {"US"} |-> row[l]]

\* lines 347-356
CoverageFilter ==
    /\ pc = "filter"
    /\ LET states == [index |-> df_errors.index,
                      at |-> [m \in Keys(df_errors) |-> drop_us(df_errors.at[m])]]
       IN  df_errors_states' =
               Rows(states, {m \in Keys(states) :
                       enough_locations(notna_count(states.at[m]))})
    /\ model_to_num_valid_projections' =
           [m \in Keys(df_errors_states') |-> notna_count(df_errors_states'.at[m])]
    /\ pc' = "report"
    /\ UNCHANGED <<error, inputs, fetched, next_model, loaded, selvars, reported,
                   df_errors_raw, df_errors, df_errors_us, df_all>>

Epsilon == <<1, 1000>>

beat_baseline_without_epsilon(model_error, baseline_error) ==
    IF isnan(model_error) THEN None
    ELSE Some(Less(abs(model_error), abs(baseline_error)))

\* lines 379-384 at one location: None where the model's error is NaN
beat_baseline(model_error, baseline_error) ==
    IF isnan(model_error) THEN None
    ELSE Some(Less(abs(model_error), abs(baseline_error))
              \/ Less(abs(model_error), Epsilon))

\* lines 206 and 358-359: the truth and the projections of the loaded models
projection_table == Put(model_to_all_projections, actual_cases_name, df_truth_filt)

\* lines 358-386.  np.where(...)[0][0] of line 362 fails when the baseline
\* has no projections.
BuildProjectionTable ==
    /\ pc = "report"
    /\ IF COVIDhub_baseline \notin Keys(model_to_all_projections)
       THEN /\ pc' = "aborted"
            /\ error' = "IndexError: baseline"
            /\ UNCHANGED df_all
       ELSE LET model_names == {c \in Keys(projection_table) : Len(c) = 2}
            IN  /\ df_all' =
                      [projections |-> [c \in Keys(projection_table) |->
                            [l \in fips_to_evaluate |-> get(projection_table.at[c], l)]],
                       error |-> [c \in model_names |-> df_errors_raw.at[c]],
                       beat_baseline |->
                           [c \in model_names \ {COVIDhub_baseline} |->
                               [l \in fips_to_evaluate |->
                                   beat_baseline(df_errors_raw.at[c][l],
                                       df_errors_raw.at[COVIDhub_baseline][l])]]]
                /\ pc' = "impute"
                /\ UNCHANGED error
    /\ UNCHANGED <<inputs, fetched, next_model, loaded, selvars, reported,
                   df_errors_raw, df_errors, df_errors_us, df_errors_states,
                   model_to_num_valid_projections>>

\* the mean of each column without the absolute value
abs_mean_signed(df) ==
    [l \in fips_to_evaluate \ {"US"} |->
        MeanSkipNa(Keys(df), [m \in Keys(df) |-> df.at[m][l]])]

\* df.abs().mean(): the mean over the rows of the absolute values of each
\* column
abs_mean(df) ==
    [l \in fips_to_evaluate \ {"US"} |->
        MeanSkipNa(Keys(df), [m \in Keys(df) |-> abs(df.at[m][l])])]

\* df.fillna(series): a NaN is replaced by the series' value for its column
fillna(df, series) ==
    [index |-> df.index,
     at |-> [m \in Keys(df) |->
                [l \in DOMAIN df.at[m] |->
                    IF isnan(df.at[m][l]) THEN series[l] ELSE df.at[m][l]]]]

has_na(df) == \E m \in Keys(df) : \E l \in DOMAIN df.at[m] : isnan(df.at[m][l])

\* lines 393-395
Impute ==
    /\ pc = "impute"
    /\ df_errors_states' = fillna(df_errors_states, abs_mean(df_errors_states))
    /\ IF has_na(df_errors_states')
       THEN pc' = "aborted" /\ error' = "NaN still in errors"
       ELSE pc' = "summaries" /\ UNCHANGED error
    /\ UNCHANGED <<inputs, fetched, next_model, loaded, selvars, reported,
                   df_errors_raw, df_errors, df_errors_us,
                   model_to_num_valid_projections, df_all>>

\* DataFrame ** 2 and DataFrame.abs(), entry by entry
squared(df) ==
    [index |-> df.index,
     at |-> [m \in Keys(df) |-> [l \in DOMAIN df.at[m] |-> Times(df.at[m][l], df.at[m][l])]]]

absolute(df) ==
    [index |-> df.index,
     at |-> [m \in Keys(df) |-> [l \in DOMAIN df.at[m] |-> abs(df.at[m][l])]]]

\* lines 405-407 and 420-422: df.T.describe().T with 'count' replaced by the
\* number of valid projections.  Of the columns of describe() the mean is
\* kept; the order of the rows (by mean) is left out.
describe(df, counts) ==
    [m \in Keys(df) |->
        [count |-> counts[m],
         mean |-> MeanSkipNa(DOMAIN df.at[m], df.at[m])]]

\* lines 403-431.  describe() raises ValueError on a table without models
\* ("Cannot describe a DataFrame without columns").
Summaries ==
    /\ pc = "summaries"
    /\ IF df_errors_states.index = <<>>
       THEN /\ pc' = "aborted"
            /\ error' = "ValueError: Cannot describe a DataFrame without columns"
            /\ UNCHANGED <<df_sq_errs_states_summary, df_abs_errs_states_summary>>
       ELSE /\ df_sq_errs_states_summary' =
                  describe(squared(df_errors_states), model_to_num_valid_projections)
            /\ df_abs_errs_states_summary' =
                  describe(absolute(df_errors_states), model_to_num_valid_projections)
            /\ pc' = "ranks"
            /\ UNCHANGED error
    /\ UNCHANGED <<inputs, fetched, next_model, loaded, selvars, scored,
                   df_ranks_summary>>

\* DataFrame.rank(): within each column the rows are ranked from the
\* smallest value (1) up, equal values sharing the average of their ranks
rank(df) ==
    [m \in Keys(df) |->
        [l \in DOMAIN df.at[m] |->
            LET less == {k \in Keys(df) : Less(df.at[k][l], df.at[m][l])}
                same == {k \in Keys(df) : Equal(df.at[k][l], df.at[m][l])}
            IN  IF isnan(df.at[m][l]) THEN NaN
                ELSE Frac(2 * Cardinality(less) + Cardinality(same) + 1, 2)]]

\* line 435: the rows whose name does not start with 'Baseline'
without_baseline_rows(df) ==
    Rows(df, {m \in Keys(df) : ~name_startswith(m, "Baseline")})

\* lines 435-438; the order of the rows (by mean rank) is left out
Ranks ==
    /\ pc = "ranks"
    /\ LET df_ranks == rank(absolute(without_baseline_rows(df_errors_states)))
       IN  df_ranks_summary' =
               [m \in DOMAIN df_ranks |-> MeanSkipNa(DOMAIN df_ranks[m], df_ranks[m])]
    /\ pc' = "done"
    /\ UNCHANGED <<error, inputs, fetched, next_model, loaded, selvars, scored,
                   df_sq_errs_states_summary, df_abs_errs_states_summary>>

(***************************************************************************)
(* The inputs of the checked runs.  proj_date is Monday 2020-07-20 and      *)
(* eval_date the Saturday WeeksAhead weeks later; "N wk ahead" ends on the *)
(* Saturday of week N.  A model directory holds a stale file (07-13,       *)
(* empty) and the file of 07-19, or the stale file alone.                  *)
(***************************************************************************)
WeeksAhead == 3

Saturday(pd, wk) == pd + 5 + 7 * (wk - 1)

StaleFile == <<7, 13, 1>>
CurrentFile == <<7, 19, 1>>

Dir(name, rows) ==
    [model_name |-> name,
     fnames |-> <<StaleFile, CurrentFile>>,
     content |-> (StaleFile :> {} @@ CurrentFile :> rows)]

\* the directories of the named models, sorted as glob's result is
HubOf(tables) ==
    LET order == SortedNames(DOMAIN tables)
    IN  [i \in 1..Len(order) |-> Dir(order[i], tables[order[i]])]

LocFactor(l) ==
    CASE l = "US" -> 7 [] l = "01" -> 1 [] l = "02" -> 2 [] l = "04" -> 3 [] OTHER -> 1

\* daily truth on the two days before proj_date, on proj_date, on eval_date
\* and on the day after it: 1, 2, 4, 8, 16 times the location's factor
TruthDays(pd, ed) == {<<pd - 2, 1>>, <<pd - 1, 2>>, <<pd, 4>>, <<ed, 8>>, <<ed + 1, 16>>}

TruthRows(pd, ed) ==
    {[date |-> d[1], location |-> l, daily_cases |-> d[2] * LocFactor(l)] :
        d \in TruthDays(pd, ed), l \in fips_to_us_state}

ForecastRow(pd, wk, kind, l, type, quantile, value) ==
    [target |-> <<wk, kind>>, target_end_date |-> Saturday(pd, wk), location |-> l,
     type |-> type, quantile |-> quantile, value |-> value]

\* the forecasts a location can come with: the weeks that have a point, a
\* median and a 0.25-quantile incident-case row, and the weeks that have an
\* incident-death point row
FullWeeks == 1..WeeksAhead
GapWeeks == FullWeeks \ {2}
Profile(p, m, q, d) == [point |-> p, median |-> m, q25 |-> q, death |-> d]
Profiles ==
    {Profile({}, {}, {}, {}),
     Profile(FullWeeks, {}, {}, {}),
     Profile(GapWeeks, {}, {}, {}),
     Profile(1..(WeeksAhead + 1), {}, {}, {}),
     Profile(1..(WeeksAhead - 1), {}, {}, {}),
     Profile({}, FullWeeks, {}, {}),
     Profile(FullWeeks, FullWeeks, {}, {}),
     Profile(GapWeeks, GapWeeks, GapWeeks, {}),
     Profile({}, FullWeeks, {}, FullWeeks),
     Profile({}, {}, {}, FullWeeks)}

ProfileRows(pd, l, pr) ==
    {ForecastRow(pd, w, target_str, l, "point", "NA", Num(10 * LocFactor(l) + w)) :
        w \in pr.point}
    \cup {ForecastRow(pd, w, target_str, l, "quantile", "0.5",
                      Num(10 * LocFactor(l) + w + 5)) : w \in pr.median}
    \cup {ForecastRow(pd, w, target_str, l, "quantile", "0.25",
                      Num(9 * LocFactor(l) + w)) : w \in pr.q25}
    \cup {ForecastRow(pd, w, "wk ahead inc death", l, "point", "NA", Num(w)) :
        w \in pr.death}

\* a table from a profile per location
ProfileTable(pd, choice) ==
    UNION {ProfileRows(pd, l, choice[l]) : l \in DOMAIN choice}

\* point forecasts for every week up to eval_date that add up to 14 times the
\* location's factor plus e
RECURSIVE SumTo(_)
SumTo(n) == IF n <= 0 THEN 0 ELSE n + SumTo(n - 1)

PointRows(pd, l, e) ==
    {ForecastRow(pd, w, target_str, l, "point", "NA",
                 IF w = 1 THEN Plus(Num(14 * LocFactor(l) - SumTo(WeeksAhead) + 1), e)
                 ELSE Num(w)) : w \in FullWeeks}

\* a table of point forecasts from an offset per location (NaN: no forecast)
PointTable(pd, offsets) ==
    UNION {PointRows(pd, l, offsets[l]) : l \in {x \in DOMAIN offsets : notna(offsets[x])}}

Offsets(us, a, b, c) == ("US" :> us @@ "01" :> a @@ "02" :> b @@ "04" :> c)

YYG == <<"YYG", "ParamSearch">>
LANL == <<"LANL", "GrowthRate">>

\* one model with any profile at two states next to a complete baseline
NormalizerScenarios(pd) ==
    {[tables |-> (COVIDhub_baseline :>
                      ProfileTable(pd, [l \in fips_to_evaluate |->
                                           Profile(FullWeeks, FullWeeks, {}, {})])
                  @@ YYG :> ProfileTable(pd, ("US" :> us @@ "01" :> a @@ "02" :> b
                                               @@ "72" :> t))),
      use_point |-> up] :
        us \in {Profile({}, {}, {}, {}), Profile(FullWeeks, {}, {}, {}),
                Profile({}, FullWeeks, {}, {})},
        a \in Profiles, b \in Profiles,
        t \in {Profile({}, {}, {}, {}), Profile(FullWeeks, {}, {}, {})},
        up \in BOOLEAN}

CompleteBaseline(pd) ==
    COVIDhub_baseline :> PointTable(pd, Offsets(Num(1), Num(1), Num(1), Num(1)))

\* the two Imperial variants with and without a national and an "01"
\* forecast, alone or next to another model
MergerScenarios(pd) ==
    {[tables |-> (CompleteBaseline(pd)
                  @@ <<"Imperial", "ensemble1">> :>
                         PointTable(pd, Offsets(u1, a1, Num(1), Num(-1)))
                  @@ <<"Imperial", "ensemble2">> :>
                         PointTable(pd, Offsets(u2, a2, Num(2), NaN))
                  @@ extra),
      use_point |-> TRUE] :
        u1 \in {NaN, Num(2), Num(3)}, a1 \in {NaN, Num(2)},
        u2 \in {NaN, Num(4), Num(-3)}, a2 \in {NaN, Num(5)},
        extra \in {<<>>,
                   <<"UCLA", "Imperial">> :>
                       PointTable(pd, Offsets(Num(6), Num(-4), NaN, Num(2))),
                   LANL :> PointTable(pd, Offsets(Num(6), Num(-4), NaN, Num(2)))}}

\* models that leave out some of the states, next to the Columbia models
CoverageScenarios(pd) ==
    {[tables |-> (COVIDhub_baseline :> PointTable(pd, Offsets(Num(1), Num(2), Num(-3), b4))
                  @@ LANL :> PointTable(pd, Offsets(Num(5), x1, x2, x4))
                  @@ YYG :> PointTable(pd, Offsets(NaN, y1, y2, y4))
                  @@ <<"CU", "nochange">> :>
                         PointTable(pd, Offsets(Num(1), Num(1), Num(1), Num(1)))
                  @@ <<"CU", "select">> :>
                         PointTable(pd, Offsets(Num(1), Num(-1), Num(12), NaN))),
      use_point |-> TRUE] :
        b4 \in {NaN, Num(4)},
        x1 \in {NaN, Num(-6)}, x2 \in {NaN, Num(7)}, x4 \in {NaN, Num(8)},
        y1 \in {NaN, Num(9)}, y2 \in {NaN, Num(-10)}, y4 \in {NaN, Num(11)}}

\* one model against the baseline, with errors on both sides of the
\* baseline's and of 1e-3
SmallErrors == {NaN, Frac(4, 10000), Frac(5, 10000), Num(-2), Num(2), Num(3)}

BaselineScenarios(pd) ==
    {[tables |-> (COVIDhub_baseline :> PointTable(pd, Offsets(Num(1), b1, b2, Num(3)))
                  @@ YYG :> PointTable(pd, Offsets(Num(-1), y1, y2, Num(-3)))),
      use_point |-> up] :
        b1 \in SmallErrors, y1 \in SmallErrors,
        b2 \in {NaN, Num(2), Num(-2)}, y2 \in {NaN, Num(2), Num(-2)},
        up \in {TRUE}}

Scenarios(pd) ==
    NormalizerScenarios(pd) \cup MergerScenarios(pd)
        \cup CoverageScenarios(pd) \cup BaselineScenarios(pd)

\* a directory whose only file is older than the tolerance window
StaleDir(name) ==
    [model_name |-> name,
     fnames |-> <<StaleFile>>,
     content |-> (StaleFile :> {})]

\* the directories of the named models, those of absent without a file in
\* the window
HubWithout(tables, absent) ==
    LET order == SortedNames(DOMAIN tables)
    IN  [i \in 1..Len(order) |->
            IF order[i] \in absent THEN StaleDir(order[i])
            ELSE Dir(order[i], tables[order[i]])]

\* the ways a model can be skipped: no file in the window, no incident-case
\* rows, none for eval_date, none of the estimate types; "" is a model
\* with point forecasts everywhere
SkipWays == {"", "no file", "no inc case", "no horizon", "no rows"}

SkipTable(pd, way, e) ==
    LET all(pr) == ProfileTable(pd, [l \in fips_to_evaluate |-> pr])
    IN  CASE way = "no inc case" -> all(Profile({}, {}, {}, FullWeeks))
          [] way = "no horizon" -> all(Profile(1..(WeeksAhead - 1), {}, {}, {}))
          [] way = "no rows" -> all(Profile({}, {}, FullWeeks, {}))
          [] OTHER -> PointTable(pd, Offsets(Num(e), Num(e), Num(0 - e), Num(e + 1)))

\* the baseline and two other models, each complete or skipped in one of
\* the ways
SkipScenarios(pd) ==
    {[tables |-> (COVIDhub_baseline :> SkipTable(pd, b, 1)
                  @@ YYG :> SkipTable(pd, y, 2)
                  @@ LANL :> SkipTable(pd, x, 3)),
      absent |-> {m \in {COVIDhub_baseline, YYG, LANL} :
                     (COVIDhub_baseline :> b @@ YYG :> y @@ LANL :> x)[m] = "no file"},
      use_point |-> TRUE] :
        b \in SkipWays, y \in SkipWays, x \in {"", "no file"}}

\* truth files: the full one, one that ends before eval_date, one that ends
\* before the window, one that starts after it, and one without Arizona
TruthFiles(pd, ed) ==
    {TruthRows(pd, ed),
     {r \in TruthRows(pd, ed) : r.date < ed},
     {r \in TruthRows(pd, ed) : r.date < pd - 1},
     {r \in TruthRows(pd, ed) : r.date > ed},
     {r \in TruthRows(pd, ed) : r.location # "04"}}

\* the arguments and files of a run
Inputs(pd, ed) ==
    {[hub |-> HubOf(sc.tables), truth_raw |-> TruthRows(pd, ed),
      use_point |-> sc.use_point] : sc \in Scenarios(pd)}
    \cup {[hub |-> HubWithout(sc.tables, sc.absent), truth_raw |-> TruthRows(pd, ed),
           use_point |-> sc.use_point] : sc \in SkipScenarios(pd)}
    \cup {[hub |-> HubOf(CompleteBaseline(pd)
                         @@ YYG :> PointTable(pd, Offsets(Num(2), y1, Num(-1), Num(3)))),
           truth_raw |-> t, use_point |-> up] :
              t \in TruthFiles(pd, ed), y1 \in {NaN, Num(2)}, up \in BOOLEAN}

Init ==
    /\ pc = "fetch"
    /\ error = ""
    /\ proj_date = DateOf(7, 20)
    /\ eval_date = Saturday(proj_date, WeeksAhead)
    /\ \E inp \in Inputs(proj_date, eval_date) :
          /\ hub = inp.hub
          /\ truth_raw = inp.truth_raw
          /\ use_point = inp.use_point
    /\ model_to_projections = EmptyTable
    /\ df_truth_filt = <<>>
    /\ next_model = 1
    /\ model_to_num_locations = EmptyTable
    /\ model_to_errors = EmptyTable
    /\ model_to_us_projection = EmptyTable
    /\ model_to_all_projections = EmptyTable
    /\ df_errors_raw = EmptyTable /\ df_errors = EmptyTable
    /\ df_errors_us = EmptyTable /\ df_errors_states = EmptyTable
    /\ model_to_num_valid_projections = <<>>
    /\ df_all = <<>>
    /\ df_sq_errs_states_summary = <<>> /\ df_abs_errs_states_summary = <<>>
    /\ df_ranks_summary = <<>>
    /\ sel_pc = "idle" /\ sel_fnames = <<>> /\ sel_proj_date = proj_date
    /\ sel_result = <<None, None>>

vars == <<pc, error, inputs, fetched, next_model, loaded, scored, reported, selvars>>

Next ==
    \/ FetchFileNames
    \/ LoadTruth
    \/ LoadModel
    \/ BeginEvaluation
    \/ MergeModels
    \/ ConsistencyCheck
    \/ CoverageFilter
    \/ BuildProjectionTable
    \/ Impute
    \/ Summaries
    \/ Ranks

Spec == Init /\ [][Next]_vars

(***************************************************************************)
(* The selector on its own: any list of at most MaxFiles names.            *)
(***************************************************************************)
MaxFiles == 3

\* 07-09 .. 07-21 around the two Mondays 07-13 and 07-20; 07-32 is no date
FileDays == {9, 10, 13, 14, 16, 20, 21, 32}
FileTags == {1, 2}
FileNames == {<<7, d, t>> : d \in FileDays, t \in FileTags}
SelProjDates == {DateOf(7, 13), DateOf(7, 20)}

SeqsUpTo(S, n) == UNION {[1..k -> S] : k \in 0..n}

InitSelect ==
    /\ sel_pc = "call"
    /\ sel_fnames \in SeqsUpTo(FileNames, MaxFiles)
    /\ sel_proj_date \in SelProjDates
    /\ sel_result = <<None, None>>
    /\ pc = "idle" /\ error = ""
    /\ hub = <<>> /\ truth_raw = {} /\ proj_date = sel_proj_date
    /\ eval_date = sel_proj_date /\ use_point = TRUE
    /\ model_to_projections = EmptyTable /\ df_truth_filt = <<>>
    /\ next_model = 1
    /\ model_to_num_locations = EmptyTable /\ model_to_errors = EmptyTable
    /\ model_to_us_projection = EmptyTable /\ model_to_all_projections = EmptyTable
    /\ df_errors_raw = EmptyTable /\ df_errors = EmptyTable
    /\ df_errors_us = EmptyTable /\ df_errors_states = EmptyTable
    /\ model_to_num_valid_projections = <<>>
    /\ df_all = <<>>
    /\ df_sq_errs_states_summary = <<>> /\ df_abs_errs_states_summary = <<>>
    /\ df_ranks_summary = <<>>

\* one call of find_last_projections; the assert of line 45 fails on an
\* unsorted list
FindLastProjections ==
    /\ sel_pc = "call"
    /\ IF IsSorted(sel_fnames)
       THEN /\ sel_result' = find_last_projections(sel_fnames, sel_proj_date)
            /\ sel_pc' = "returned"
       ELSE /\ sel_result' = sel_result
            /\ sel_pc' = "AssertionError"
    /\ UNCHANGED <<sel_fnames, sel_proj_date>>
    /\ UNCHANGED <<pc, error, inputs, fetched, next_model, loaded, scored, reported>>

NextSelect == FindLastProjections

SpecSelect == InitSelect /\ [][NextSelect]_vars

(***************************************************************************)
(* Claims about the file selector (checked under SpecSelect).              *)
(***************************************************************************)
\* the indices of the names that satisfy the selection condition, stated
\* from the contract: a leading date d with d <= proj_date and
\* proj_date - d <= 6 from 2020-07-20 on, <= 3 before
SelQualifying ==
    {i \in 1..Len(sel_fnames) :
        /\ str_to_date(sel_fnames[i]) # None
        /\ LET d == str_to_date(sel_fnames[i])[1]
           IN  /\ d <= sel_proj_date
               /\ sel_proj_date - d <=
                      (IF sel_proj_date >= DateOf(7, 20) THEN 6 ELSE 3)}

SelDate(i) == str_to_date(sel_fnames[i])[1]

SelLatest == {i \in SelQualifying : \A j \in SelQualifying : SelDate(j) <= SelDate(i)}

\* C1: find_last_projections returns a name whose leading date is the latest
\* among the names within the tolerance window (6 days from 2020-07-20 on, 3
\* days before), together with that date, and (None, None) exactly when no
\* name is within the window; a file 4 days old is never chosen before
\* 2020-07-20, and from then on one 6 days old is accepted, one 7 days old not.
C1_SelectorContract ==
    sel_pc = "returned" =>
        /\ (SelQualifying = {}) <=> (sel_result = <<None, None>>)
        /\ SelQualifying # {} =>
              /\ sel_result[1] # None /\ sel_result[2] # None
              /\ \E i \in SelLatest :
                    /\ sel_result[1][1] = sel_fnames[i]
                    /\ sel_result[2][1] = SelDate(i)
        /\ sel_result[2] # None =>
              /\ sel_proj_date < DateOf(7, 20) => sel_proj_date - sel_result[2][1] < 4
              /\ sel_proj_date - sel_result[2][1] < 7
        /\ (/\ sel_proj_date >= DateOf(7, 20)
            /\ \E i \in 1..Len(sel_fnames) :
                  sel_fnames[i][2] \in 1..31 /\ SelDate(i) = sel_proj_date - 6)
           => sel_result[2] # None

\* a call on 2020-07-20 with a file 7 days old and one 6 days old, the
\* latter chosen
C1_Witness ==
    /\ sel_pc = "returned"
    /\ sel_proj_date = DateOf(7, 20)
    /\ \E i \in 1..Len(sel_fnames) : sel_fnames[i] = <<7, 13, 1>>
    /\ sel_result = <<Some(<<7, 14, 1>>), Some(DateOf(7, 14))>>

\* C2 as stated: of two qualifying names with the same, latest, date the one
\* later in the list is returned.
C2_LastWins ==
    (sel_pc = "returned" /\ SelLatest # {}) =>
        \E j \in SelLatest :
            /\ \A i \in SelLatest : i <= j
            /\ sel_result[1] = Some(sel_fnames[j])

\* C2 (amended): of the qualifying names with the latest date the one that
\* comes first in the list is returned; a later name replaces the choice
\* only when its date is strictly later.
C2_FirstWins ==
    (sel_pc = "returned" /\ SelLatest # {}) =>
        \E i \in SelLatest :
            /\ \A j \in SelLatest : i <= j
            /\ sel_result[1] = Some(sel_fnames[i])

\* two different names of the latest date were offered
C2_Witness ==
    /\ sel_pc = "returned"
    /\ \E i \in SelLatest : \E j \in SelLatest :
          i < j /\ sel_fnames[i] # sel_fnames[j]
    /\ sel_result[1] # None

(***************************************************************************)
(* Claims about main() (checked under Spec).                               *)
(***************************************************************************)
ClaimUniverse == {"US", "01", "02", "04"}

\* the raw table main() reads for a model it found a file for
ClaimRawTable(m) ==
    read_projections(hub, m, model_to_projections.at[m].last_valid_fname)

\* the rows main() selects for a model
ClaimSelectedRows(m) == normalize(ClaimRawTable(m), eval_date, use_point).rows

RECURSIVE ClaimValueSum(_)
ClaimValueSum(rows) ==
    IF rows = {} THEN Num(0)
    ELSE LET r == CHOOSE x \in rows : TRUE
         IN  Plus(r.value, ClaimValueSum(rows \ {r}))

RECURSIVE ClaimCasesSum(_)
ClaimCasesSum(rows) ==
    IF rows = {} THEN 0
    ELSE LET r == CHOOSE x \in rows : TRUE
         IN  r.daily_cases + ClaimCasesSum(rows \ {r})

\* the observed total of a location: its daily cases from the day before
\* proj_date to eval_date
ClaimActual(l) ==
    ClaimCasesSum({r \in truth_raw :
        r.location = l /\ proj_date - 1 <= r.date /\ r.date <= eval_date})

\* C3: every entry of the error table is the sum of the model's selected
\* rows for the location minus the location's observed total from
\* proj_date - 1 to eval_date, missing when the model has no selected row
\* there; the table has the locations of the evaluation universe only.
C3_ErrorTable ==
    \A m \in Keys(df_errors_raw) :
        /\ DOMAIN df_errors_raw.at[m] = ClaimUniverse
        /\ \A l \in ClaimUniverse :
              LET mine == {r \in ClaimSelectedRows(m) : r.location = l}
              IN  IF mine = {} THEN df_errors_raw.at[m][l] = NaN
                  ELSE df_errors_raw.at[m][l] =
                           Minus(ClaimValueSum(mine), Num(ClaimActual(l)))

\* a model with several horizon rows summed at "01", none at "02", and rows
\* for Puerto Rico in its file
C3_Witness ==
    /\ pc = "merge"
    /\ YYG \in Keys(df_errors_raw)
    /\ Cardinality({r \in ClaimSelectedRows(YYG) : r.location = "01"}) > 1
    /\ notna(df_errors_raw.at[YYG]["01"])
    /\ isnan(df_errors_raw.at[YYG]["02"])
    /\ \E r \in ClaimRawTable(YYG) : r.location = "72"

\* the weeks for which a model forecasts incident cases at a location, up
\* to eval_date
ClaimWeeks(m, l) ==
    {r.target[1] : r \in {x \in ClaimRawTable(m) :
        /\ x.target[2] = "wk ahead inc case"
        /\ x.location = l
        /\ x.target_end_date <= eval_date}}

ClaimHasGap(m, l) ==
    \E w \in 1..WeeksAhead : \E v \in ClaimWeeks(m, l) : w < v /\ w \notin ClaimWeeks(m, l)

\* C4 as stated: a location with a gap in its horizons is not in the
\* model's aggregated projection, whatever the other locations report.
C4_GapExcluded ==
    \A m \in Keys(model_to_all_projections) :
        \A l \in ClaimUniverse :
            ClaimHasGap(m, l) => l \notin DOMAIN model_to_all_projections.at[m]

\* the models the loop has passed that are not skipped Columbia variants
ClaimProcessed ==
    {model_to_projections.index[i] : i \in 1..(next_model - 1)}
        \ {<<"CU", "nochange">>}

\* the incident-case rows of a model at evaluated locations that the
\* horizon filter leaves, by estimate type
ClaimEstimates(m, type) ==
    {r \in drop_incomplete_locations(upto_eval_date(ClaimRawTable(m), eval_date)) :
        /\ r.target[2] = "wk ahead inc case"
        /\ r.location \in ClaimUniverse
        /\ IF type = "point" THEN r.type = "point" ELSE r.quantile = "0.5"}

\* C5 as stated: the rows of the preferred estimate type are used, those of
\* the other type when the preferred one is absent, and a model with either
\* is not skipped.
C5_EstimateSelection ==
    \A m \in ClaimProcessed :
        LET preferred == ClaimEstimates(m, IF use_point THEN "point" ELSE "median")
            other == ClaimEstimates(m, IF use_point THEN "median" ELSE "point")
            expected == IF preferred # {} THEN preferred ELSE other
        IN  (/\ expected # {}
             /\ \E r \in ClaimRawTable(m) :
                   r.target[2] = "wk ahead inc case" /\ r.target_end_date = eval_date)
            => /\ m \in Keys(model_to_errors)
               /\ ClaimSelectedRows(m) = expected

\* the states, and the table the imputation starts from: the merged error
\* table without "US", restricted to the models the coverage filter kept
ClaimStates == ClaimUniverse \ {"US"}
ClaimImputed == pc = "summaries" \/ error = "NaN still in errors"
ClaimBefore(m, l) == df_errors.at[m][l]

\* the mean of the absolute values of the entries of f that are not missing
ClaimMeanAbs(S, f) ==
    LET have == {k \in S : f[k] # NaN}
        total == ClaimValueSum({[key |-> k, value |-> abs(f[k])] : k \in have})
    IN  IF have = {} THEN NaN ELSE Frac(total[1], total[2] * Cardinality(have))

\* C6 as stated: a missing error is replaced by the same model's mean
\* absolute error over its own locations.
C6_OwnMean ==
    ClaimImputed =>
        \A m \in Keys(df_errors_states) : \A l \in ClaimStates :
            df_errors_states.at[m][l] =
                IF ClaimBefore(m, l) # NaN THEN ClaimBefore(m, l)
                ELSE ClaimMeanAbs(ClaimStates, [k \in ClaimStates |-> ClaimBefore(m, k)])

\* C6 (amended): a missing error is replaced by the mean absolute error at
\* that location over the coverage-filtered models that have an error
\* there, and stays missing when none has; the other entries are unchanged.
C6_LocationMean ==
    ClaimImputed =>
        \A m \in Keys(df_errors_states) : \A l \in ClaimStates :
            df_errors_states.at[m][l] =
                IF ClaimBefore(m, l) # NaN THEN ClaimBefore(m, l)
                ELSE ClaimMeanAbs(Keys(df_errors_states),
                         [k \in Keys(df_errors_states) |-> ClaimBefore(k, l)])

\* a kept model had no error at a state where two other kept models had
\* errors of opposite sign
C6_Witness ==
    /\ pc = "summaries"
    /\ \E m \in Keys(df_errors_states) : \E l \in ClaimStates :
          /\ ClaimBefore(m, l) = NaN
          /\ \E a \in Keys(df_errors_states) : \E b \in Keys(df_errors_states) :
                /\ ClaimBefore(a, l) # NaN /\ ClaimBefore(a, l)[1] < 0
                /\ ClaimBefore(b, l) # NaN /\ ClaimBefore(b, l)[1] > 0

\* C7 as stated: after the imputation no entry of the filtered table is
\* missing, and imputing again changes nothing.
C7_NoneMissing ==
    ClaimImputed =>
        /\ \A m \in Keys(df_errors_states) : \A l \in ClaimStates :
              df_errors_states.at[m][l] # NaN
        /\ fillna(df_errors_states, abs_mean(df_errors_states)) = df_errors_states

\* the national error of a model: predicted US minus actual US
ClaimUsError(m) ==
    Minus(df_errors_us.at[m].predicted_cases, df_errors_us.at[m].actual_cases)

ClaimConsistent ==
    /\ Keys(df_errors_us) = Keys(df_errors)
    /\ \A m \in Keys(df_errors_us) :
          \/ ClaimUsError(m) # NaN /\ ClaimUsError(m) = df_errors.at[m]["US"]
          \/ ClaimUsError(m) = NaN /\ df_errors.at[m]["US"] = NaN

ClaimMerged == pc \in {"check", "filter", "report", "impute", "summaries", "ranks", "done"}

\* the models of the family: the names that begin with the prefix
ClaimFamily == {m \in Keys(df_errors_raw) : m[1] = "Imperial"}

ClaimLast(t) == t.index[Len(t.index)]

\* C9 as stated: the merger removes the models whose names begin with the
\* prefix from both tables and appends their mean as "Imperial-combined";
\* the other models' entries are unchanged, and so are both tables when no
\* name matches.
C9_Merger ==
    ClaimMerged =>
        /\ \A m \in Keys(df_errors_raw) \ ClaimFamily :
              /\ m \in Keys(df_errors) /\ df_errors.at[m] = df_errors_raw.at[m]
              /\ m \in Keys(df_errors_us)
              /\ df_errors_us.at[m].predicted_cases = model_to_us_projection.at[m]
        /\ ClaimFamily = {} =>
              /\ df_errors = df_errors_raw
              /\ Keys(df_errors_us) = Keys(df_errors_raw)
        /\ ClaimFamily # {} =>
              /\ Keys(df_errors) = (Keys(df_errors_raw) \ ClaimFamily) \cup {combined_name}
              /\ Keys(df_errors_us) = Keys(df_errors)
              /\ ClaimLast(df_errors) = combined_name
              /\ ClaimLast(df_errors_us) = combined_name
              /\ \A l \in ClaimUniverse :
                    df_errors.at[combined_name][l] =
                        MeanSkipNa(ClaimFamily,
                            [m \in ClaimFamily |-> df_errors_raw.at[m][l]])
              /\ df_errors_us.at[combined_name].predicted_cases =
                     MeanSkipNa(ClaimFamily,
                         [m \in ClaimFamily |-> model_to_us_projection.at[m]])

\* C10: for every model but the baseline and every location, beat_baseline
\* is undefined where the model's error is, and otherwise true exactly when
\* the model's absolute error is below the baseline's or below 1e-3.
C10_BeatBaseline ==
    pc \in {"impute", "summaries", "ranks", "done"} =>
        /\ DOMAIN df_all.beat_baseline = Keys(df_errors_raw) \ {COVIDhub_baseline}
        /\ \A m \in DOMAIN df_all.beat_baseline : \A l \in ClaimUniverse :
              LET e == abs(df_errors_raw.at[m][l])
                  b == abs(df_errors_raw.at[COVIDhub_baseline][l])
              IN  df_all.beat_baseline[m][l] =
                      IF e = NaN THEN None
                      ELSE Some(\/ b # NaN /\ e[1] * b[2] < b[1] * e[2]
                                \/ e[1] * 1000 < e[2])

\* an error of 0.0005 against a baseline error of 0.0004 counts as beating
\* the baseline, equal errors of 3 do not, nor does an error against an
\* undefined baseline error
C10_Witness ==
    /\ pc = "impute"
    /\ YYG \in Keys(df_errors_raw)
    /\ abs(df_errors_raw.at[YYG]["01"]) = <<1, 2000>>
    /\ abs(df_errors_raw.at[COVIDhub_baseline]["01"]) = <<1, 2500>>
    /\ df_all.beat_baseline[YYG]["01"] = Some(TRUE)
    /\ df_all.beat_baseline[YYG]["04"] = Some(FALSE)
    /\ isnan(df_errors_raw.at[COVIDhub_baseline]["02"])
    /\ df_all.beat_baseline[YYG]["02"] = Some(FALSE)

\* the models of the mean-rank summary when the baseline is ignored
ClaimRanked == Keys(df_errors_states) \ {COVIDhub_baseline}

\* twice the rank of model m at location l among the models of S by
\* absolute error, 1 for the smallest, ties sharing the average rank
ClaimTwiceRank(S, m, l) ==
    LET e(k) == abs(df_errors_states.at[k][l])
        below == {k \in S : e(k)[1] * e(m)[2] < e(m)[1] * e(k)[2]}
        tied == {k \in S : e(k) = e(m)}
    IN  2 * Cardinality(below) + Cardinality(tied) + 1

ClaimMeanRank(S, m) ==
    LET total == ClaimValueSum({[key |-> l, value |-> Num(ClaimTwiceRank(S, m, l))] :
                                   l \in ClaimStates})
    IN  Frac(total[1], 2 * Cardinality(ClaimStates))

\* C11 as stated: the baseline COVIDhub-baseline has no row in the
\* mean-rank summary, and every other summarised model's mean rank is the
\* mean over the states of its rank among the models other than the
\* baseline.
C11_BaselineNotRanked ==
    pc = "done" =>
        /\ COVIDhub_baseline \notin DOMAIN df_ranks_summary
        /\ DOMAIN df_ranks_summary = ClaimRanked
        /\ \A m \in ClaimRanked :
              df_ranks_summary[m] = ClaimMeanRank(ClaimRanked, m)

\* the loop over the models has ended (the truth was loaded before it)
ClaimLoopOver ==
    /\ pc \notin {"fetch", "truth"}
    /\ df_truth_filt # <<>>
    /\ next_model > Len(model_to_projections.index)

ClaimHubModels == {hub[i].model_name : i \in 1..Len(hub)}

\* the Columbia variants main() leaves out by name
ClaimLeftOut == {m \in ClaimHubModels : m[1] = "CU" /\ m # <<"CU", "select">>}

\* the models skipped for one of the four reasons: no file in the tolerance
\* window, no incident-case rows, none for eval_date, no rows after the
\* filter
ClaimSkipped ==
    {hub[i].model_name : i \in {j \in 1..Len(hub) :
        find_last_projections(hub[j].fnames, proj_date)[1] = None}}
    \cup {m \in Keys(model_to_projections) \ ClaimLeftOut :
             normalize(ClaimRawTable(m), eval_date, use_point).skip # ""}

ClaimRemaining == (ClaimHubModels \ ClaimLeftOut) \ ClaimSkipped

\* every remaining model has an error at every evaluated location
ClaimRemainingComplete ==
    \A m \in ClaimRemaining :
        /\ m \in Keys(model_to_errors)
        /\ \A l \in ClaimUniverse : model_to_errors.at[m][l] # NaN

\* C12 as stated: a skipped model, the baseline included, is in none of the
\* result tables, and a run with skipped models whose remaining models all
\* have complete forecasts does not abort.
C12_SkipsRecoverable ==
    ClaimLoopOver =>
        /\ \A m \in ClaimSkipped :
              m \notin Keys(model_to_errors) \cup Keys(model_to_all_projections)
                  \cup Keys(df_errors_raw) \cup Keys(df_errors_states)
                  \cup DOMAIN df_sq_errs_states_summary
                  \cup DOMAIN df_abs_errs_states_summary
                  \cup DOMAIN df_ranks_summary
        /\ (ClaimSkipped # {} /\ ClaimRemaining # {} /\ ClaimRemainingComplete)
              => pc # "aborted"

\* the truth file has no row dated eval_date
ClaimTruthShort == \A r \in truth_raw : r.date # eval_date

\* C13 as stated: when the truth has no row dated eval_date, the run does
\* not get past the truth loader: it aborts there, and no model is scored.
C13_TruthAbort ==
    ClaimTruthShort =>
        \/ pc \in {"fetch", "truth"}
        \/ /\ pc = "aborted"
           /\ error \in {"No truth data available for eval date",
                          "Missing FIPS in truth"}
           /\ Keys(model_to_errors) = {}

\* the number of states at which a model of the merged error table has an
\* error
ClaimCount(m) == Cardinality({l \in ClaimStates : df_errors.at[m][l] # NaN})

\* the models with more errors than the threshold
ClaimCovered ==
    {m \in Keys(df_errors) : ClaimCount(m) > min_locations_with_projections}

\* the models whose forecasts make up a model of the merged error table
ClaimMembers(m) ==
    IF m \in Keys(df_errors_raw) THEN {m} ELSE Keys(df_errors_raw) \ Keys(df_errors)

====
